---- MODULE Spec2Model ----
(***************************************************************************)
(* TaskFi front-end: the task-status derivation and action-eligibility     *)
(* logic of src/lib/contract.ts (formatTaskData, canSubmitProofForTask,    *)
(* canClaimTask, canClaimFailedTask) as it is used by the task card.       *)
(*                                                                         *)
(* A raw task record (ContractTask) is read from the contract, formatted   *)
(* by formatTaskData, which reads the clock itself, and later rendered by  *)
(* the task card, which evaluates the three eligibility functions for the  *)
(* connected address; canSubmitProofForTask reads the clock again.         *)
(***************************************************************************)
EXTENDS Integers, Sequences, FiniteSets, TLC

VARIABLES
    taskData,      \* ContractTask returned by contract.getTask
    userAddress,   \* useAccount().address: absent, empty or an address
    now,           \* Math.floor(Date.now() / 1000)
    task,          \* FormattedTask produced by formatTaskData, or Null
    formattedAt,   \* clock value formatTaskData read (its local `now`)
    view,          \* the task card's canSubmitProof / canClaimOwn / canClaimFailed
    renderedAt     \* clock value canSubmitProofForTask read at that render

\* State of the useTaskFiContract hook and of the wallet it observes.
VARIABLES
    chainId,       \* useChainId()
    isConnected,   \* useAccount().isConnected
    walletClient,  \* useWalletClient().data is defined
    contract,      \* the signer-bound contract instance is non-null
    initTimer,     \* the 500 ms contract initialisation timer is pending
    isLoading,     \* useState isLoading
    sp,            \* the submitProof invocation
    cr,            \* the claimReward invocation
    cf,            \* the claimFailedTask invocation
    userTasks,     \* useState userTasks
    allTasks,      \* useState allTasks
    rf             \* the refreshTasks run (the one that started last)

\* Further invocations of the hook's functions.
VARIABLES
    st,            \* the submitTask invocation
    ck,            \* the checkTaskFailure invocation
    ap,            \* the approveTaskCompletion invocation
    rfPrev,        \* a refreshTasks run that started earlier and is still in flight
    ga,            \* a getAllTasks invocation, followed id by id
    refreshTimer   \* the setTimeout(() => refreshTasks(), ...) of a write operation

cardVars == <<task, formattedAt, view, renderedAt>>

walletVars == <<chainId, isConnected, walletClient, contract, initTimer>>

\* The invocations and runs that most operations leave alone.
auxVars == <<st, ck, ap, rfPrev, ga>>

hookVars == <<chainId, isConnected, walletClient, contract, initTimer,
              isLoading, sp, cr, cf, userTasks, allTasks, rf,
              st, ck, ap, rfPrev, ga, refreshTimer>>

vars == <<taskData, userAddress, now, task, formattedAt, view, renderedAt,
          chainId, isConnected, walletClient, contract, initTimer,
          isLoading, sp, cr, cf, userTasks, allTasks, rf,
          st, ck, ap, rfPrev, ga, refreshTimer>>

----------------------------------------------------------------------------
(* Bounds of the model.                                                    *)

MaxTime == 3        \* the clock runs over 0..MaxTime
MaxDeadline == 2    \* deadlines are 1..MaxDeadline
MaxDeposit == 1     \* deposits are 0..MaxDeposit
MaxTaskId == 3      \* contract.getCurrentTaskId() is in 0..MaxTaskId

----------------------------------------------------------------------------
(* Chain ids                                                               *)

AMOY_CHAIN_ID == 80002

SEPOLIA_CHAIN_ID == 11155111

EXPECTED_CHAIN_ID == AMOY_CHAIN_ID

\* The networks the wallet can be on.
ChainIds == {AMOY_CHAIN_ID, SEPOLIA_CHAIN_ID}

----------------------------------------------------------------------------
(* enum TaskStatus                                                         *)

InProgress == 0
Complete == 1
Failed == 2

TaskStatus == {InProgress, Complete, Failed}

(* FormattedTask['status']                                                 *)
UiStatus == {"active", "completed", "failed", "in-review"}

----------------------------------------------------------------------------
(* Strings are sequences of one-character strings, so that toLowerCase is  *)
(* a real conversion and length is Len.                                    *)

\* String.prototype.toLowerCase on one character.
LowerChar(c) ==
    CASE c = "A" -> "a"
      [] c = "B" -> "b"
      [] c = "C" -> "c"
      [] OTHER -> c

\* String.prototype.toLowerCase
ToLowerCase(s) == [i \in DOMAIN s |-> LowerChar(s[i])]

\* Wallet addresses in mixed letter case: two of them differ only in case,
\* others differ in a character.
Addresses == {<<x, y>> : x \in {"a", "A"}, y \in {"b", "B", "c"}}

\* `undefined` for the optional userAddress parameter.
Undefined == <<"undefined">>

\* The empty string.
EmptyString == <<>>

\* Values of useAccount().address handed to the eligibility functions.
Viewers == Addresses \cup {Undefined, EmptyString}

\* Values of proofOfCompletion: no proof, or an IPFS reference.
Proofs == {EmptyString, <<"p">>}

\* A null / undefined object reference.
Null == [null |-> TRUE]

\* JavaScript falsiness of an optional string: undefined or "".
Falsy(s) == s = Undefined \/ s = EmptyString

\* The ContractTask records the contract can return (fields the status
\* logic reads; taskId, description and createdAt are copied through).
ContractTasks ==
    [user : Addresses,
     deposit : 0..MaxDeposit,
     deadline : 1..MaxDeadline,
     status : TaskStatus,
     proofOfCompletion : Proofs]

----------------------------------------------------------------------------
(* formatTaskData                                                          *)

\* const hasProof = taskData.proofOfCompletion && taskData.proofOfCompletion.length > 0
HasProof(td) == ~Falsy(td.proofOfCompletion) /\ Len(td.proofOfCompletion) > 0

IsExpired_Reversed(td, clock) == td.deadline > clock

IsExpired_Inclusive(td, clock) == td.deadline <= clock

\* const isExpired = deadlineTimestamp < now
IsExpired(td, clock) == td.deadline < clock

IsClaimed_Never(td) == FALSE

\* const isClaimed = taskData.status === TaskStatus.Complete && taskData.deposit.eq(0)
IsClaimed(td) == td.status = Complete /\ td.deposit = 0

StatusOf_ProofFirst(td, clock) ==
    CASE td.status = InProgress ->
           IF HasProof(td) THEN "in-review"
           ELSE IF IsExpired(td, clock) THEN "failed"
           ELSE "active"
      [] td.status = Complete -> "completed"
      [] td.status = Failed -> "failed"
      [] OTHER -> "active"

\* The `status` assigned by the switch over taskData.status.  The contract's
\* enum has three members, so the records drawn never take the default case.
StatusOf(td, clock) ==
    CASE td.status = InProgress ->
           IF IsExpired(td, clock) THEN "failed"
           ELSE IF HasProof(td) THEN "in-review"
           ELSE "active"
      [] td.status = Complete -> "completed"
      [] td.status = Failed -> "failed"
      [] OTHER -> "active"

\* The `canSubmitProof` flag assigned by the same switch.
CanSubmitProofFlag(td, clock) ==
    CASE td.status = InProgress ->
           IF IsExpired(td, clock) THEN FALSE
           ELSE IF HasProof(td) THEN FALSE
           ELSE TRUE
      [] td.status = Complete -> FALSE
      [] td.status = Failed -> FALSE
      [] OTHER -> ~HasProof(td) /\ ~IsExpired(td, clock)

\* The `canClaim` flag assigned by the same switch.
CanClaimFlag(td) ==
    CASE td.status = InProgress -> FALSE
      [] td.status = Complete -> ~IsClaimed(td)
      [] td.status = Failed -> FALSE
      [] OTHER -> FALSE

\* formatTaskData(taskData), with `clock` the value of
\* Math.floor(Date.now() / 1000) it reads.
FormatTaskData(td, clock) ==
    [creator |-> td.user,
     deadline |-> td.deadline,
     proof |-> td.proofOfCompletion,
     status |-> StatusOf(td, clock),
     deposit |-> td.deposit,
     claimed |-> IsClaimed(td),
     canSubmitProof |-> CanSubmitProofFlag(td, clock),
     canClaim |-> CanClaimFlag(td)]

----------------------------------------------------------------------------
(* Eligibility functions                                                   *)

CanSubmitProofForTask_NoActive(t, addr, clock) ==
    IF Falsy(addr) \/ t = Null THEN FALSE
    ELSE LET isOwner == ToLowerCase(t.creator) = ToLowerCase(addr)
             hasNoProof == Falsy(t.proof) \/ Len(t.proof) = 0
             notExpired == t.deadline > clock
         IN  isOwner /\ hasNoProof /\ notExpired

CanSubmitProofForTask_CaseSensitive(t, addr, clock) ==
    IF Falsy(addr) \/ t = Null THEN FALSE
    ELSE LET isOwner == ToLowerCase(t.creator) = addr
             isActive == t.status = "active"
             hasNoProof == Falsy(t.proof) \/ Len(t.proof) = 0
             notExpired == t.deadline > clock
         IN  isOwner /\ isActive /\ hasNoProof /\ notExpired

\* canSubmitProofForTask(task, userAddress), with `clock` the value of
\* Math.floor(Date.now() / 1000) it reads.
CanSubmitProofForTask(t, addr, clock) ==
    IF Falsy(addr) \/ t = Null THEN FALSE
    ELSE LET isOwner == ToLowerCase(t.creator) = ToLowerCase(addr)
             isActive == t.status = "active"
             hasNoProof == Falsy(t.proof) \/ Len(t.proof) = 0
             notExpired == t.deadline > clock
         IN  isOwner /\ isActive /\ hasNoProof /\ notExpired

CanClaimTask_OwnerOnly(t, addr) ==
    IF Falsy(addr) \/ t = Null THEN FALSE
    ELSE ToLowerCase(t.creator) = ToLowerCase(addr)

CanClaimTask_NoStatus(t, addr) ==
    IF Falsy(addr) \/ t = Null THEN FALSE
    ELSE LET isOwner == ToLowerCase(t.creator) = ToLowerCase(addr)
             notClaimed == ~t.claimed
         IN  isOwner /\ notClaimed

\* canClaimTask(task, userAddress)
CanClaimTask(t, addr) ==
    IF Falsy(addr) \/ t = Null THEN FALSE
    ELSE LET isOwner == ToLowerCase(t.creator) = ToLowerCase(addr)
             isCompleted == t.status = "completed"
             notClaimed == ~t.claimed
         IN  isOwner /\ isCompleted /\ notClaimed

CanClaimFailedTask_NoStatus(t, addr) ==
    IF Falsy(addr) \/ t = Null THEN FALSE
    ELSE ToLowerCase(t.creator) # ToLowerCase(addr)

CanClaimFailedTask_NoOwner(t, addr) ==
    IF Falsy(addr) \/ t = Null THEN FALSE
    ELSE t.status = "failed"

CanClaimFailedTask_NoViewerCheck(t, addr) ==
    IF t = Null THEN FALSE
    ELSE LET isNotOwner == ToLowerCase(t.creator) # ToLowerCase(addr)
             isFailed == t.status = "failed"
         IN  isNotOwner /\ isFailed

\* canClaimFailedTask(task, userAddress)
CanClaimFailedTask(t, addr) ==
    IF Falsy(addr) \/ t = Null THEN FALSE
    ELSE LET isNotOwner == ToLowerCase(t.creator) # ToLowerCase(addr)
             isFailed == t.status = "failed"
         IN  isNotOwner /\ isFailed

\* The three flags the task card computes on each render.
CardFlags(t, addr, clock) ==
    [canSubmitProof |-> CanSubmitProofForTask(t, addr, clock),
     canClaimOwn |-> CanClaimTask(t, addr),
     canClaimFailed |-> CanClaimFailedTask(t, addr)]

----------------------------------------------------------------------------
(* useTaskFiContract: derived values and the records of its invocations    *)

IsCorrectNetwork_Expected(c) == c = EXPECTED_CHAIN_ID

\* const isCorrectNetwork = chainId === SEPOLIA_CHAIN_ID
IsCorrectNetwork(c) == c = SEPOLIA_CHAIN_ID

\* The condition of the contract initialisation effect.
CanInitContract(conn, wc, c) == conn /\ wc /\ IsCorrectNetwork(c)

WriteGuardFails_NoContract == ~isConnected \/ ~IsCorrectNetwork(chainId)

\* `!contract || !isConnected || !isCorrectNetwork` of the write operations.
WriteGuardFails == ~contract \/ ~isConnected \/ ~IsCorrectNetwork(chainId)

\* Values of the proofUrl argument: empty, blank, or a reference.
ProofUrls == {EmptyString, <<" ">>, <<"p">>}

\* !proofUrl || proofUrl.trim().length === 0
IsBlank(url) == Falsy(url) \/ \A i \in DOMAIN url : url[i] = " "

SubmitProofChecks_NoOwner(t, addr, clock) ==
    /\ ~(~Falsy(t.proof) /\ Len(t.proof) > 0)
    /\ ~(t.status # "active")
    /\ ~(t.deadline < clock)

SubmitProofChecks_OwnerDeadlineOnly(t, addr, clock) ==
    /\ ~(ToLowerCase(t.creator) # (IF addr = Undefined THEN Undefined ELSE ToLowerCase(addr)))
    /\ ~(t.deadline < clock)

\* The four checks submitProof makes on the freshly formatted task before it
\* estimates gas; `clock` is the value of Math.floor(Date.now() / 1000).
SubmitProofChecks(t, addr, clock) ==
    /\ ~(ToLowerCase(t.creator) # (IF addr = Undefined THEN Undefined ELSE ToLowerCase(addr)))
    /\ ~(~Falsy(t.proof) /\ Len(t.proof) > 0)
    /\ ~(t.status # "active")
    /\ ~(t.deadline < clock)

\* The two checks claimReward makes on the freshly formatted task.
ClaimRewardChecks(t, addr) ==
    /\ ~(ToLowerCase(t.creator) # (IF addr = Undefined THEN Undefined ELSE ToLowerCase(addr)))
    /\ ~(t.status # "completed")

ClaimFunctions_StakeFirst == <<"claimStake", "claimReward", "withdrawDeposit">>

\* The contract functions claimReward tries, in this order.
ClaimFunctions == <<"claimReward", "claimStake", "withdrawDeposit">>

\* What a rejected promise carries: error.code and what error.message
\* contains, as far as the catch blocks look at them.
UserRejected == [code |-> "USER_REJECTED", message |-> "user rejected"]

ClaimErrors ==
    {UserRejected,
     [code |-> "CALL_EXCEPTION", message |-> "already claimed"],
     [code |-> "CALL_EXCEPTION", message |-> "not completed"],
     [code |-> "NETWORK_ERROR", message |-> "other"]}

\* throw new Error(`All claim functions failed. Last error: ${error3.message}`):
\* the new error has no code, its message contains the last message.
AllClaimFunctionsFailed(e) == [code |-> "", message |-> e.message]

\* The toast of claimReward's outer catch block.
ClaimRewardCatchToast(e) ==
    IF e.code = "USER_REJECTED" THEN "Transaction cancelled"
    ELSE IF e.message = "already claimed" THEN "Already claimed"
    ELSE IF e.message = "not completed" THEN "Task not completed"
    ELSE "Failed to claim reward"

\* An invocation that has not been made; tried, failures, txs, confirmed and
\* rejectedAt record what a claimReward invocation has done so far.
NoCall ==
    [pc |-> "idle", address |-> Undefined, proofUrl |-> EmptyString,
     fetched |-> Null, checkedAt |-> 0, sent |-> FALSE, result |-> "none",
     proofWasStored |-> FALSE, attempt |-> 0, functionUsed |-> "",
     tried |-> <<>>, failures |-> 0, txs |-> <<>>, confirmed |-> FALSE,
     rejectedAt |-> 0, toast |-> ""]

\* No refreshTasks run is in flight.
NoRefresh ==
    [pc |-> "idle", address |-> Undefined, userDone |-> FALSE, allDone |-> FALSE,
     userTasksData |-> <<>>, allTasksData |-> <<>>]

\* No refresh timer of a write operation is pending.
NoTimer == [pending |-> FALSE, address |-> Undefined]

\* setTimeout(() => refreshTasks(), 3000) at the end of a successful write
\* operation: the refreshTasks of the render the operation was called in,
\* which sees that render's isConnected, isCorrectNetwork (both true, the
\* operation passed its guard) and address. One pending timer is followed,
\* the latest.
RefreshTimerOf(call) == [pending |-> TRUE, address |-> call.address]

\* getAllTasks has not been called.
NoGetAllTasks ==
    [pc |-> "idle", guardFailed |-> FALSE, idsFailed |-> FALSE,
     currentTaskId |-> 0, taskId |-> 0, failed |-> {},
     tasks |-> <<>>, result |-> Null]

\* The hook before anything has happened in it: useState initial values,
\* no invocation made.
HookIdle ==
    /\ contract = FALSE
    /\ initTimer = FALSE
    /\ isLoading = FALSE
    /\ sp = NoCall
    /\ cr = NoCall
    /\ cf = NoCall
    /\ userTasks = <<>>
    /\ allTasks = <<>>
    /\ rf = NoRefresh
    /\ st = NoCall
    /\ ck = NoCall
    /\ ap = NoCall
    /\ rfPrev = NoRefresh
    /\ ga = NoGetAllTasks
    /\ refreshTimer = NoTimer

----------------------------------------------------------------------------
(* State machine                                                           *)

TypeOK ==
    /\ taskData \in ContractTasks
    /\ userAddress \in Viewers
    /\ now \in 0..MaxTime
    /\ formattedAt \in 0..MaxTime
    /\ renderedAt \in 0..MaxTime

Init ==
    /\ taskData \in ContractTasks
    /\ userAddress \in Viewers
    /\ now = 0
    /\ task = Null
    /\ formattedAt = 0
    /\ view = Null
    /\ renderedAt = 0
    /\ chainId = SEPOLIA_CHAIN_ID
    /\ isConnected = ~Falsy(userAddress)
    /\ walletClient = isConnected
    /\ HookIdle

\* A second passes.
Tick ==
    /\ now < MaxTime
    /\ now' = now + 1
    /\ UNCHANGED <<taskData, userAddress, task, formattedAt, view, renderedAt>>
    /\ UNCHANGED hookVars

\* The fetched record is formatted (getTask / getAllTasks / getUserTasks
\* call formatTaskData on what getTaskSafely returned); the card has not
\* rendered the new object yet.
FormatTask ==
    /\ task' = FormatTaskData(taskData, now)
    /\ formattedAt' = now
    /\ view' = Null
    /\ UNCHANGED <<taskData, userAddress, now, renderedAt>>
    /\ UNCHANGED hookVars

\* The task card renders the formatted task for the connected address.
RenderTaskCard ==
    /\ task # Null
    /\ view' = CardFlags(task, userAddress, now)
    /\ renderedAt' = now
    /\ UNCHANGED <<taskData, userAddress, now, task, formattedAt>>
    /\ UNCHANGED hookVars

Next == Tick \/ FormatTask \/ RenderTaskCard

Spec == Init /\ [][Next]_vars

----------------------------------------------------------------------------
(* The wallet, and the hook's effects that follow a change of it           *)

\* The connected accounts of the hook specifications: the creator's address
\* in another letter case, and somebody else's.
HookCreator == <<"a", "b">>

HookAddresses == {<<"A", "b">>, <<"a", "c">>}

ContractEffect_NoCleanup(conn, wc, c) ==
    IF <<conn, wc, IsCorrectNetwork(c)>>
         = <<isConnected, walletClient, IsCorrectNetwork(chainId)>>
    THEN UNCHANGED <<contract, initTimer>>
    ELSE IF CanInitContract(conn, wc, c)
         THEN contract' = contract /\ initTimer' = TRUE
         ELSE contract' = FALSE /\ UNCHANGED initTimer

\* The contract initialisation effect, run when one of its dependencies
\* [isConnected, walletClient, isCorrectNetwork] changes to the given values:
\* the cleanup clears the pending timer, then either a new 500 ms timer is
\* started or the instance is set to null.
ContractEffect(conn, wc, c) ==
    IF <<conn, wc, IsCorrectNetwork(c)>>
         = <<isConnected, walletClient, IsCorrectNetwork(chainId)>>
    THEN UNCHANGED <<contract, initTimer>>
    ELSE IF CanInitContract(conn, wc, c)
         THEN contract' = contract /\ initTimer' = TRUE
         ELSE contract' = FALSE /\ initTimer' = FALSE

\* The initial data load effect, run when one of its dependencies
\* [isConnected, isCorrectNetwork, address] changes: the lists are cleared
\* when disconnected or on the wrong network.
TasksEffect(conn, c, addr) ==
    IF <<conn, IsCorrectNetwork(c), addr>>
         = <<isConnected, IsCorrectNetwork(chainId), userAddress>>
       \/ (conn /\ IsCorrectNetwork(c) /\ ~Falsy(addr))
    THEN UNCHANGED <<userTasks, allTasks>>
    ELSE userTasks' = <<>> /\ allTasks' = <<>>

\* The user connects account a on network c.
Connect(a, c) ==
    /\ ~isConnected
    /\ isConnected' = TRUE
    /\ userAddress' = a
    /\ chainId' = c
    /\ walletClient' = FALSE
    /\ ContractEffect(TRUE, FALSE, c)
    /\ TasksEffect(TRUE, c, a)
    /\ UNCHANGED <<taskData, now, isLoading, sp, cr, cf, rf>>
    /\ UNCHANGED cardVars
    /\ UNCHANGED auxVars
    /\ UNCHANGED refreshTimer

\* wagmi delivers the wallet client of the connected account.
WalletClientLoaded ==
    /\ isConnected
    /\ ~walletClient
    /\ walletClient' = TRUE
    /\ ContractEffect(isConnected, TRUE, chainId)
    /\ UNCHANGED <<taskData, userAddress, now, chainId, isConnected,
                   isLoading, sp, cr, cf, userTasks, allTasks, rf>>
    /\ UNCHANGED cardVars
    /\ UNCHANGED auxVars
    /\ UNCHANGED refreshTimer

\* The user disconnects the wallet.
Disconnect ==
    /\ isConnected
    /\ isConnected' = FALSE
    /\ userAddress' = Undefined
    /\ walletClient' = FALSE
    /\ ContractEffect(FALSE, FALSE, chainId)
    /\ TasksEffect(FALSE, chainId, Undefined)
    /\ UNCHANGED <<taskData, now, chainId, isLoading, sp, cr, cf, rf>>
    /\ UNCHANGED cardVars
    /\ UNCHANGED auxVars
    /\ UNCHANGED refreshTimer

\* The user changes the network in the wallet.
SwitchChain(c) ==
    /\ isConnected
    /\ c # chainId
    /\ chainId' = c
    /\ ContractEffect(isConnected, walletClient, c)
    /\ TasksEffect(isConnected, c, userAddress)
    /\ UNCHANGED <<taskData, userAddress, now, isConnected, walletClient,
                   isLoading, sp, cr, cf, rf>>
    /\ UNCHANGED cardVars
    /\ UNCHANGED auxVars
    /\ UNCHANGED refreshTimer

\* The page shows "Wrong Network" while connected and !isCorrectNetwork; its
\* button calls switchChain({ chainId: AMOY_CHAIN_ID }).
WrongNetworkShown == isConnected /\ ~IsCorrectNetwork(chainId)

HandleSwitchToAmoy ==
    /\ WrongNetworkShown
    /\ chainId' = AMOY_CHAIN_ID
    /\ ContractEffect(isConnected, walletClient, AMOY_CHAIN_ID)
    /\ TasksEffect(isConnected, AMOY_CHAIN_ID, userAddress)
    /\ UNCHANGED <<taskData, userAddress, now, isConnected, walletClient,
                   isLoading, sp, cr, cf, rf>>
    /\ UNCHANGED cardVars
    /\ UNCHANGED auxVars
    /\ UNCHANGED refreshTimer

\* The 500 ms timer of the initialisation effect fires (window.ethereum is
\* present): setContract(getTaskFiContract(signer)).
ContractInitTimerFires ==
    /\ initTimer
    /\ contract' = TRUE
    /\ initTimer' = FALSE
    /\ UNCHANGED <<taskData, userAddress, now, chainId, isConnected, walletClient,
                   isLoading, sp, cr, cf, userTasks, allTasks, rf>>
    /\ UNCHANGED cardVars
    /\ UNCHANGED auxVars
    /\ UNCHANGED refreshTimer

----------------------------------------------------------------------------
(* The TaskFi contract, as far as the front-end observes it: the record    *)
(* of the task changes by transactions mined on the chain.                 *)

\* An admin approves the task.
ContractApproves ==
    /\ taskData.status = InProgress
    /\ taskData' = [taskData EXCEPT !.status = Complete]
    /\ UNCHANGED <<userAddress, now>>
    /\ UNCHANGED cardVars
    /\ UNCHANGED hookVars

\* checkTaskFailure is mined after the deadline.
ContractMarksFailed ==
    /\ taskData.status = InProgress
    /\ taskData.deadline < now
    /\ taskData' = [taskData EXCEPT !.status = Failed]
    /\ UNCHANGED <<userAddress, now>>
    /\ UNCHANGED cardVars
    /\ UNCHANGED hookVars

\* A submitProof transaction sent from another session of the creator is mined.
ProofRecorded ==
    /\ taskData.status = InProgress
    /\ taskData.proofOfCompletion = EmptyString
    /\ taskData' = [taskData EXCEPT !.proofOfCompletion = <<"p">>]
    /\ UNCHANGED <<userAddress, now>>
    /\ UNCHANGED cardVars
    /\ UNCHANGED hookVars

\* The deposit of a finished task is paid out.
DepositWithdrawn ==
    /\ taskData.status \in {Complete, Failed}
    /\ taskData.deposit > 0
    /\ taskData' = [taskData EXCEPT !.deposit = 0]
    /\ UNCHANGED <<userAddress, now>>
    /\ UNCHANGED cardVars
    /\ UNCHANGED hookVars

----------------------------------------------------------------------------
(* submitProof(taskId, proofUrl)                                           *)

\* The `finally` of a write operation, with its return value.
SubmitProofReturns(r) ==
    /\ sp' = [sp EXCEPT !.pc = "done", !.result = r]
    /\ isLoading' = FALSE

\* The call up to its first await: the two guards, then setIsLoading(true)
\* and the request of the task.
SubmitProofCall(url) ==
    /\ sp.pc \in {"idle", "done"}
    /\ IF WriteGuardFails \/ IsBlank(url)
       THEN /\ sp' = [NoCall EXCEPT !.pc = "done", !.result = "false",
                                    !.address = userAddress, !.proofUrl = url,
                                    !.proofWasStored = (taskData.proofOfCompletion # EmptyString)]
            /\ UNCHANGED isLoading
       ELSE /\ sp' = [NoCall EXCEPT !.pc = "fetch",
                                    !.address = userAddress, !.proofUrl = url,
                                    !.proofWasStored = (taskData.proofOfCompletion # EmptyString)]
            /\ isLoading' = TRUE
    /\ UNCHANGED <<taskData, userAddress, now, cr, cf, userTasks, allTasks, rf>>
    /\ UNCHANGED walletVars
    /\ UNCHANGED cardVars
    /\ UNCHANGED auxVars
    /\ UNCHANGED refreshTimer

\* getTaskSafely fails or times out: 'Task not found'.
SubmitProofTaskNotFound ==
    /\ sp.pc = "fetch"
    /\ SubmitProofReturns("false")
    /\ UNCHANGED <<taskData, userAddress, now, cr, cf, userTasks, allTasks, rf>>
    /\ UNCHANGED walletVars
    /\ UNCHANGED cardVars
    /\ UNCHANGED auxVars
    /\ UNCHANGED refreshTimer

\* getTaskSafely returns the record; it is formatted and checked.
SubmitProofTaskFetched ==
    /\ sp.pc = "fetch"
    /\ LET formattedTask == FormatTaskData(taskData, now)
       IN  IF SubmitProofChecks(formattedTask, sp.address, now)
           THEN /\ sp' = [sp EXCEPT !.pc = "estimate", !.fetched = formattedTask,
                                    !.checkedAt = now]
                /\ UNCHANGED isLoading
           ELSE /\ sp' = [sp EXCEPT !.pc = "done", !.result = "false",
                                    !.fetched = formattedTask, !.checkedAt = now]
                /\ isLoading' = FALSE
    /\ UNCHANGED <<taskData, userAddress, now, cr, cf, userTasks, allTasks, rf>>
    /\ UNCHANGED walletVars
    /\ UNCHANGED cardVars
    /\ UNCHANGED auxVars
    /\ UNCHANGED refreshTimer

\* contract.estimateGas.submitProof resolves.
SubmitProofGasEstimated ==
    /\ sp.pc = "estimate"
    /\ sp' = [sp EXCEPT !.pc = "send"]
    /\ UNCHANGED <<taskData, userAddress, now, isLoading, cr, cf, userTasks, allTasks, rf>>
    /\ UNCHANGED walletVars
    /\ UNCHANGED cardVars
    /\ UNCHANGED auxVars
    /\ UNCHANGED refreshTimer

\* contract.submitProof resolves: the wallet has signed and sent the transaction.
SubmitProofTxSent ==
    /\ sp.pc = "send"
    /\ sp' = [sp EXCEPT !.pc = "wait", !.sent = TRUE]
    /\ UNCHANGED <<taskData, userAddress, now, isLoading, cr, cf, userTasks, allTasks, rf>>
    /\ UNCHANGED walletVars
    /\ UNCHANGED cardVars
    /\ UNCHANGED auxVars
    /\ UNCHANGED refreshTimer

\* The gas estimate, the wallet prompt or tx.wait() rejects: the catch block.
SubmitProofThrows ==
    /\ sp.pc \in {"estimate", "send", "wait"}
    /\ SubmitProofReturns("false")
    /\ UNCHANGED <<taskData, userAddress, now, cr, cf, userTasks, allTasks, rf>>
    /\ UNCHANGED walletVars
    /\ UNCHANGED cardVars
    /\ UNCHANGED auxVars
    /\ UNCHANGED refreshTimer

\* tx.wait() resolves: the contract has recorded the proof.
SubmitProofMined ==
    /\ sp.pc = "wait"
    /\ taskData.status = InProgress
    /\ taskData.proofOfCompletion = EmptyString
    /\ taskData' = [taskData EXCEPT !.proofOfCompletion = sp.proofUrl]
    /\ SubmitProofReturns("true")
    /\ UNCHANGED <<userAddress, now, cr, cf, userTasks, allTasks, rf>>
    /\ UNCHANGED walletVars
    /\ UNCHANGED cardVars
    /\ UNCHANGED auxVars
    /\ refreshTimer' = RefreshTimerOf(sp)

----------------------------------------------------------------------------
(* The hook with a wallet, the contract and submitProof                    *)

\* A task that has just been created by HookCreator.
FreshTasks ==
    [user : {HookCreator},
     deposit : 1..MaxDeposit,
     deadline : 1..MaxDeadline,
     status : {InProgress},
     proofOfCompletion : {EmptyString}]

HookInit ==
    /\ taskData \in FreshTasks
    /\ userAddress = Undefined
    /\ now = 0
    /\ task = Null
    /\ formattedAt = 0
    /\ view = Null
    /\ renderedAt = 0
    /\ chainId \in ChainIds
    /\ isConnected = FALSE
    /\ walletClient = FALSE
    /\ HookIdle

WalletNext ==
    \/ \E a \in HookAddresses, c \in ChainIds : Connect(a, c)
    \/ WalletClientLoaded
    \/ Disconnect
    \/ \E c \in ChainIds : SwitchChain(c)
    \/ HandleSwitchToAmoy
    \/ ContractInitTimerFires

ContractNext ==
    \/ ContractApproves
    \/ ContractMarksFailed
    \/ ProofRecorded
    \/ DepositWithdrawn

SubmitProofNext ==
    \/ \E url \in ProofUrls : SubmitProofCall(url)
    \/ SubmitProofTaskNotFound
    \/ SubmitProofTaskFetched
    \/ SubmitProofGasEstimated
    \/ SubmitProofTxSent
    \/ SubmitProofThrows
    \/ SubmitProofMined

SubmitSpecNext == Tick \/ WalletNext \/ ContractNext \/ SubmitProofNext

SubmitSpec == HookInit /\ [][SubmitSpecNext]_vars

----------------------------------------------------------------------------
(* claimReward(taskId)                                                     *)

ClaimRewardReturns(r, t) ==
    /\ cr' = [cr EXCEPT !.pc = "done", !.result = r, !.toast = t]
    /\ isLoading' = FALSE

\* The call up to its first await: the guard, setIsLoading(true), the
\* request of the task.
ClaimRewardCall ==
    /\ cr.pc \in {"idle", "done"}
    /\ IF WriteGuardFails
       THEN /\ cr' = [NoCall EXCEPT !.pc = "done", !.result = "false",
                                    !.address = userAddress,
                                    !.toast = "Please connect your wallet to Sepolia network"]
            /\ UNCHANGED isLoading
       ELSE /\ cr' = [NoCall EXCEPT !.pc = "fetch", !.address = userAddress]
            /\ isLoading' = TRUE
    /\ UNCHANGED <<taskData, userAddress, now, sp, cf, userTasks, allTasks, rf>>
    /\ UNCHANGED walletVars
    /\ UNCHANGED cardVars
    /\ UNCHANGED auxVars
    /\ UNCHANGED refreshTimer

\* getTaskSafely fails or times out: 'Task not found'.
ClaimRewardTaskNotFound ==
    /\ cr.pc = "fetch"
    /\ ClaimRewardReturns("false", "Task not found")
    /\ UNCHANGED <<taskData, userAddress, now, sp, cf, userTasks, allTasks, rf>>
    /\ UNCHANGED walletVars
    /\ UNCHANGED cardVars
    /\ UNCHANGED auxVars
    /\ UNCHANGED refreshTimer

\* getTaskSafely returns the record; it is formatted and validated, and the
\* balance is requested.
ClaimRewardTaskFetched ==
    /\ cr.pc = "fetch"
    /\ LET formattedTask == FormatTaskData(taskData, now)
       IN  IF ClaimRewardChecks(formattedTask, cr.address)
           THEN /\ cr' = [cr EXCEPT !.pc = "balance", !.fetched = formattedTask,
                                    !.checkedAt = now]
                /\ UNCHANGED isLoading
           ELSE /\ cr' = [cr EXCEPT !.pc = "done", !.result = "false",
                                    !.fetched = formattedTask, !.checkedAt = now,
                                    !.toast =
                                        IF ToLowerCase(formattedTask.creator)
                                             # (IF cr.address = Undefined THEN Undefined
                                                ELSE ToLowerCase(cr.address))
                                        THEN "You can only claim your own tasks"
                                        ELSE "Cannot claim task with status"]
                /\ isLoading' = FALSE
    /\ UNCHANGED <<taskData, userAddress, now, sp, cf, userTasks, allTasks, rf>>
    /\ UNCHANGED walletVars
    /\ UNCHANGED cardVars
    /\ UNCHANGED auxVars
    /\ UNCHANGED refreshTimer

\* provider.getBalance resolves; the first function's gas estimate is requested.
ClaimRewardBalanceRead ==
    /\ cr.pc = "balance"
    /\ cr' = [cr EXCEPT !.pc = "estimate", !.attempt = 1,
                        !.tried = <<ClaimFunctions[1]>>]
    /\ UNCHANGED <<taskData, userAddress, now, isLoading, sp, cf, userTasks, allTasks, rf>>
    /\ UNCHANGED walletVars
    /\ UNCHANGED cardVars
    /\ UNCHANGED auxVars
    /\ UNCHANGED refreshTimer

\* contract.estimateGas.<function> resolves; the transaction is requested.
ClaimRewardGasEstimated ==
    /\ cr.pc = "estimate"
    /\ cr' = [cr EXCEPT !.pc = "send"]
    /\ UNCHANGED <<taskData, userAddress, now, isLoading, sp, cf, userTasks, allTasks, rf>>
    /\ UNCHANGED walletVars
    /\ UNCHANGED cardVars
    /\ UNCHANGED auxVars
    /\ UNCHANGED refreshTimer

\* The gas estimate or the sending of the current function rejects with
\* error e (the wallet prompt, where the user can reject, belongs to the
\* sending): the inner catch, whatever e is, tries the next function; the
\* last one throws a new error to the outer catch.
ClaimRewardAttemptFails(e) ==
    /\ cr.pc \in {"estimate", "send"}
    /\ e = UserRejected => cr.pc = "send"
    /\ LET rejectedAt == IF e.code = "USER_REJECTED" /\ cr.rejectedAt = 0
                         THEN cr.attempt ELSE cr.rejectedAt
       IN  IF cr.attempt < Len(ClaimFunctions)
           THEN /\ cr' = [cr EXCEPT !.pc = "estimate", !.attempt = cr.attempt + 1,
                                    !.tried = Append(cr.tried, ClaimFunctions[cr.attempt + 1]),
                                    !.failures = cr.failures + 1,
                                    !.rejectedAt = rejectedAt]
                /\ UNCHANGED isLoading
           ELSE /\ cr' = [cr EXCEPT !.pc = "done", !.result = "false",
                                    !.failures = cr.failures + 1,
                                    !.rejectedAt = rejectedAt,
                                    !.toast = ClaimRewardCatchToast(AllClaimFunctionsFailed(e))]
                /\ isLoading' = FALSE
    /\ UNCHANGED <<taskData, userAddress, now, sp, cf, userTasks, allTasks, rf>>
    /\ UNCHANGED walletVars
    /\ UNCHANGED cardVars
    /\ UNCHANGED auxVars
    /\ UNCHANGED refreshTimer

\* contract.<function>(taskId) resolves: the transaction has been sent.
ClaimRewardTxSent ==
    /\ cr.pc = "send"
    /\ cr' = [cr EXCEPT !.pc = "wait", !.sent = TRUE,
                        !.functionUsed = ClaimFunctions[cr.attempt],
                        !.txs = Append(cr.txs, ClaimFunctions[cr.attempt])]
    /\ UNCHANGED <<taskData, userAddress, now, isLoading, sp, cf, userTasks, allTasks, rf>>
    /\ UNCHANGED walletVars
    /\ UNCHANGED cardVars
    /\ UNCHANGED auxVars
    /\ UNCHANGED refreshTimer

\* getBalance or tx.wait() rejects with error e: the outer catch.
ClaimRewardThrows(e) ==
    /\ cr.pc \in {"balance", "wait", "balanceAfter"}
    /\ e # UserRejected
    /\ ClaimRewardReturns("false", ClaimRewardCatchToast(e))
    /\ UNCHANGED <<taskData, userAddress, now, sp, cf, userTasks, allTasks, rf>>
    /\ UNCHANGED walletVars
    /\ UNCHANGED cardVars
    /\ UNCHANGED auxVars
    /\ UNCHANGED refreshTimer

\* tx.wait() resolves: the deposit of a completed task is paid out; a task
\* whose deposit is gone pays nothing ('no ETH received').
ClaimRewardMined ==
    /\ cr.pc = "wait"
    /\ taskData' = IF taskData.status = Complete
                   THEN [taskData EXCEPT !.deposit = 0]
                   ELSE taskData
    /\ cr' = [cr EXCEPT !.pc = "balanceAfter", !.confirmed = TRUE]
    /\ UNCHANGED <<userAddress, now, isLoading, sp, cf, userTasks, allTasks, rf>>
    /\ UNCHANGED walletVars
    /\ UNCHANGED cardVars
    /\ UNCHANGED auxVars
    /\ UNCHANGED refreshTimer

\* The second getBalance resolves: the toast by the balance difference, the
\* refresh timer, return true.
ClaimRewardDone ==
    /\ cr.pc = "balanceAfter"
    /\ \E received \in BOOLEAN :
         ClaimRewardReturns("true", IF received THEN "Reward claimed successfully!"
                                    ELSE "Transaction completed but no ETH received")
    /\ UNCHANGED <<taskData, userAddress, now, sp, cf, userTasks, allTasks, rf>>
    /\ UNCHANGED walletVars
    /\ UNCHANGED cardVars
    /\ UNCHANGED auxVars
    /\ refreshTimer' = RefreshTimerOf(cr)

ClaimRewardNext ==
    \/ ClaimRewardCall
    \/ ClaimRewardTaskNotFound
    \/ ClaimRewardTaskFetched
    \/ ClaimRewardBalanceRead
    \/ ClaimRewardGasEstimated
    \/ \E e \in ClaimErrors : ClaimRewardAttemptFails(e)
    \/ ClaimRewardTxSent
    \/ \E e \in ClaimErrors : ClaimRewardThrows(e)
    \/ ClaimRewardMined
    \/ ClaimRewardDone

ClaimSpecNext == Tick \/ WalletNext \/ ContractNext \/ ClaimRewardNext

ClaimSpec == HookInit /\ [][ClaimSpecNext]_vars

----------------------------------------------------------------------------
(* claimFailedTask(taskId)                                                 *)

ClaimFailedReturns(r) ==
    /\ cf' = [cf EXCEPT !.pc = "done", !.result = r]
    /\ isLoading' = FALSE

\* The call up to its first await: the guard, setIsLoading(true), and
\* contract.claimFailedTaskDeposit(taskId) is requested.
ClaimFailedCall ==
    /\ cf.pc \in {"idle", "done"}
    /\ IF WriteGuardFails
       THEN /\ cf' = [NoCall EXCEPT !.pc = "done", !.result = "false",
                                    !.address = userAddress]
            /\ UNCHANGED isLoading
       ELSE /\ cf' = [NoCall EXCEPT !.pc = "send", !.address = userAddress]
            /\ isLoading' = TRUE
    /\ UNCHANGED <<taskData, userAddress, now, sp, cr, userTasks, allTasks, rf>>
    /\ UNCHANGED walletVars
    /\ UNCHANGED cardVars
    /\ UNCHANGED auxVars
    /\ UNCHANGED refreshTimer

\* contract.claimFailedTaskDeposit resolves: the transaction has been sent.
ClaimFailedTxSent ==
    /\ cf.pc = "send"
    /\ cf' = [cf EXCEPT !.pc = "wait", !.sent = TRUE, !.checkedAt = now]
    /\ UNCHANGED <<taskData, userAddress, now, isLoading, sp, cr, userTasks, allTasks, rf>>
    /\ UNCHANGED walletVars
    /\ UNCHANGED cardVars
    /\ UNCHANGED auxVars
    /\ UNCHANGED refreshTimer

\* The sending or tx.wait() rejects: the catch block.
ClaimFailedThrows ==
    /\ cf.pc \in {"send", "wait"}
    /\ ClaimFailedReturns("false")
    /\ UNCHANGED <<taskData, userAddress, now, sp, cr, userTasks, allTasks, rf>>
    /\ UNCHANGED walletVars
    /\ UNCHANGED cardVars
    /\ UNCHANGED auxVars
    /\ UNCHANGED refreshTimer

\* tx.wait() resolves: the contract has marked the overdue task failed and
\* paid its deposit to the claimer.
ClaimFailedMined ==
    /\ cf.pc = "wait"
    /\ \/ taskData.status = Failed
       \/ taskData.status = InProgress /\ taskData.deadline < now
    /\ taskData' = [taskData EXCEPT !.status = Failed, !.deposit = 0]
    /\ ClaimFailedReturns("true")
    /\ UNCHANGED <<userAddress, now, sp, cr, userTasks, allTasks, rf>>
    /\ UNCHANGED walletVars
    /\ UNCHANGED cardVars
    /\ UNCHANGED auxVars
    /\ refreshTimer' = RefreshTimerOf(cf)

ClaimFailedNext ==
    \/ ClaimFailedCall
    \/ ClaimFailedTxSent
    \/ ClaimFailedThrows
    \/ ClaimFailedMined

ClaimFailedSpecNext == Tick \/ WalletNext \/ ContractNext \/ ClaimFailedNext

ClaimFailedSpec == HookInit /\ [][ClaimFailedSpecNext]_vars

----------------------------------------------------------------------------
(* submitTask(description, timelineHours, depositEth)                      *)

\* Values of the depositEth argument: a decimal number, or not one.
DepositEths == {<<"1">>, <<"x">>}

\* ethers.utils.parseEther(depositEth) returns (it throws otherwise).
ParsesAsEther(d) == \A i \in DOMAIN d : d[i] \in {"0", "1", "."}

\* The three guards of submitTask, each returning false.
SubmitTaskGuardFails == ~isConnected \/ ~IsCorrectNetwork(chainId) \/ ~contract

SubmitTaskReturns(r, t) ==
    /\ st' = [st EXCEPT !.pc = "done", !.result = r, !.toast = t]
    /\ isLoading' = FALSE

\* The call up to its first await: the guards, setIsLoading(true),
\* parseEther, and the gas estimate is requested.
SubmitTaskCall(depositEth) ==
    /\ st.pc \in {"idle", "done"}
    /\ IF SubmitTaskGuardFails
       THEN /\ st' = [NoCall EXCEPT !.pc = "done", !.result = "false",
                                    !.toast = IF ~isConnected THEN "Please connect your wallet"
                                              ELSE IF ~IsCorrectNetwork(chainId)
                                                   THEN "Please switch to Sepolia network"
                                                   ELSE "Contract not initialized. Please try again."]
            /\ UNCHANGED isLoading
       ELSE IF ~ParsesAsEther(depositEth)
            THEN /\ st' = [NoCall EXCEPT !.pc = "done", !.result = "false",
                                         !.toast = "Failed to create task"]
                 /\ isLoading' = FALSE
            ELSE /\ st' = [NoCall EXCEPT !.pc = "estimate", !.address = userAddress]
                 /\ isLoading' = TRUE
    /\ UNCHANGED <<taskData, userAddress, now, sp, cr, cf, userTasks, allTasks, rf>>
    /\ UNCHANGED <<ck, ap, rfPrev, ga, refreshTimer>>
    /\ UNCHANGED walletVars
    /\ UNCHANGED cardVars

\* contract.estimateGas.submitTask resolves.
SubmitTaskGasEstimated ==
    /\ st.pc = "estimate"
    /\ st' = [st EXCEPT !.pc = "send"]
    /\ UNCHANGED <<taskData, userAddress, now, isLoading, sp, cr, cf, userTasks, allTasks, rf>>
    /\ UNCHANGED <<ck, ap, rfPrev, ga, refreshTimer>>
    /\ UNCHANGED walletVars
    /\ UNCHANGED cardVars

\* contract.submitTask resolves: the transaction has been sent.
SubmitTaskTxSent ==
    /\ st.pc = "send"
    /\ st' = [st EXCEPT !.pc = "wait", !.sent = TRUE]
    /\ UNCHANGED <<taskData, userAddress, now, isLoading, sp, cr, cf, userTasks, allTasks, rf>>
    /\ UNCHANGED <<ck, ap, rfPrev, ga, refreshTimer>>
    /\ UNCHANGED walletVars
    /\ UNCHANGED cardVars

\* The gas estimate, the wallet prompt or tx.wait() rejects: the catch block.
SubmitTaskThrows ==
    /\ st.pc \in {"estimate", "send", "wait"}
    /\ SubmitTaskReturns("false", "Failed to create task")
    /\ UNCHANGED <<taskData, userAddress, now, sp, cr, cf, userTasks, allTasks, rf>>
    /\ UNCHANGED <<ck, ap, rfPrev, ga, refreshTimer>>
    /\ UNCHANGED walletVars
    /\ UNCHANGED cardVars

\* tx.wait() resolves: the contract has created a new task (another one
\* than the task followed here); the refresh timer is started.
SubmitTaskMined ==
    /\ st.pc = "wait"
    /\ SubmitTaskReturns("true", "Task created successfully!")
    /\ refreshTimer' = RefreshTimerOf(st)
    /\ UNCHANGED <<taskData, userAddress, now, sp, cr, cf, userTasks, allTasks, rf>>
    /\ UNCHANGED <<ck, ap, rfPrev, ga>>
    /\ UNCHANGED walletVars
    /\ UNCHANGED cardVars

SubmitTaskNext ==
    \/ \E d \in DepositEths : SubmitTaskCall(d)
    \/ SubmitTaskGasEstimated
    \/ SubmitTaskTxSent
    \/ SubmitTaskThrows
    \/ SubmitTaskMined

----------------------------------------------------------------------------
(* checkTaskFailure(taskId)                                                *)

\* The call up to its first await: the guard, and contract.checkTaskFailure
\* is requested. The function neither toasts nor touches isLoading.
CheckTaskFailureCall ==
    /\ ck.pc \in {"idle", "done"}
    /\ IF WriteGuardFails
       THEN ck' = [NoCall EXCEPT !.pc = "done", !.result = "false"]
       ELSE ck' = [NoCall EXCEPT !.pc = "send", !.address = userAddress]
    /\ UNCHANGED <<taskData, userAddress, now, isLoading, sp, cr, cf, userTasks, allTasks, rf>>
    /\ UNCHANGED <<st, ap, rfPrev, ga, refreshTimer>>
    /\ UNCHANGED walletVars
    /\ UNCHANGED cardVars

\* contract.checkTaskFailure resolves: the transaction has been sent.
CheckTaskFailureTxSent ==
    /\ ck.pc = "send"
    /\ ck' = [ck EXCEPT !.pc = "wait", !.sent = TRUE]
    /\ UNCHANGED <<taskData, userAddress, now, isLoading, sp, cr, cf, userTasks, allTasks, rf>>
    /\ UNCHANGED <<st, ap, rfPrev, ga, refreshTimer>>
    /\ UNCHANGED walletVars
    /\ UNCHANGED cardVars

\* The sending or tx.wait() rejects: the catch block.
CheckTaskFailureThrows ==
    /\ ck.pc \in {"send", "wait"}
    /\ ck' = [ck EXCEPT !.pc = "done", !.result = "false"]
    /\ UNCHANGED <<taskData, userAddress, now, isLoading, sp, cr, cf, userTasks, allTasks, rf>>
    /\ UNCHANGED <<st, ap, rfPrev, ga, refreshTimer>>
    /\ UNCHANGED walletVars
    /\ UNCHANGED cardVars

\* tx.wait() resolves: the contract has marked the task failed if it was
\* overdue; the refresh timer is started.
CheckTaskFailureMined ==
    /\ ck.pc = "wait"
    /\ taskData' = IF taskData.status = InProgress /\ taskData.deadline < now
                   THEN [taskData EXCEPT !.status = Failed]
                   ELSE taskData
    /\ ck' = [ck EXCEPT !.pc = "done", !.result = "true"]
    /\ refreshTimer' = RefreshTimerOf(ck)
    /\ UNCHANGED <<userAddress, now, isLoading, sp, cr, cf, userTasks, allTasks, rf>>
    /\ UNCHANGED <<st, ap, rfPrev, ga>>
    /\ UNCHANGED walletVars
    /\ UNCHANGED cardVars

CheckTaskFailureNext ==
    \/ CheckTaskFailureCall
    \/ CheckTaskFailureTxSent
    \/ CheckTaskFailureThrows
    \/ CheckTaskFailureMined

----------------------------------------------------------------------------
(* approveTaskCompletion(taskId)                                           *)

\* The contract functions approveTaskCompletion tries, in this order.
ApproveFunctions == <<"approveTask", "markTaskComplete", "completeTask", "approveTaskCompletion">>

ApproveReturns(r, t) ==
    /\ ap' = [ap EXCEPT !.pc = "done", !.result = r, !.toast = t]
    /\ isLoading' = FALSE

\* The call up to its first await: the guard, setIsLoading(true), and
\* contract.approveTask is requested.
ApproveCall ==
    /\ ap.pc \in {"idle", "done"}
    /\ IF WriteGuardFails
       THEN /\ ap' = [NoCall EXCEPT !.pc = "done", !.result = "false",
                                    !.toast = "Please connect your wallet to Sepolia network"]
            /\ UNCHANGED isLoading
       ELSE /\ ap' = [NoCall EXCEPT !.pc = "send", !.attempt = 1,
                                    !.address = userAddress]
            /\ isLoading' = TRUE
    /\ UNCHANGED <<taskData, userAddress, now, sp, cr, cf, userTasks, allTasks, rf>>
    /\ UNCHANGED <<st, ck, rfPrev, ga, refreshTimer>>
    /\ UNCHANGED walletVars
    /\ UNCHANGED cardVars

\* The current function rejects: the next one is tried; the rejection of
\* the last one reaches the outer catch.
ApproveAttemptFails ==
    /\ ap.pc = "send"
    /\ IF ap.attempt < Len(ApproveFunctions)
       THEN /\ ap' = [ap EXCEPT !.attempt = ap.attempt + 1]
            /\ UNCHANGED isLoading
       ELSE ApproveReturns("false", "Failed to approve task")
    /\ UNCHANGED <<taskData, userAddress, now, sp, cr, cf, userTasks, allTasks, rf>>
    /\ UNCHANGED <<st, ck, rfPrev, ga, refreshTimer>>
    /\ UNCHANGED walletVars
    /\ UNCHANGED cardVars

\* contract.<function>(taskId) resolves: the transaction has been sent.
ApproveTxSent ==
    /\ ap.pc = "send"
    /\ ap' = [ap EXCEPT !.pc = "wait", !.sent = TRUE,
                        !.functionUsed = ApproveFunctions[ap.attempt]]
    /\ UNCHANGED <<taskData, userAddress, now, isLoading, sp, cr, cf, userTasks, allTasks, rf>>
    /\ UNCHANGED <<st, ck, rfPrev, ga, refreshTimer>>
    /\ UNCHANGED walletVars
    /\ UNCHANGED cardVars

\* tx.wait() rejects: the outer catch.
ApproveThrows ==
    /\ ap.pc = "wait"
    /\ ApproveReturns("false", "Failed to approve task")
    /\ UNCHANGED <<taskData, userAddress, now, sp, cr, cf, userTasks, allTasks, rf>>
    /\ UNCHANGED <<st, ck, rfPrev, ga, refreshTimer>>
    /\ UNCHANGED walletVars
    /\ UNCHANGED cardVars

\* tx.wait() resolves: the contract has marked the task complete; the
\* refresh timer is started.
ApproveMined ==
    /\ ap.pc = "wait"
    /\ taskData.status = InProgress
    /\ taskData' = [taskData EXCEPT !.status = Complete]
    /\ ApproveReturns("true", "Task approved successfully!")
    /\ refreshTimer' = RefreshTimerOf(ap)
    /\ UNCHANGED <<userAddress, now, sp, cr, cf, userTasks, allTasks, rf>>
    /\ UNCHANGED <<st, ck, rfPrev, ga>>
    /\ UNCHANGED walletVars
    /\ UNCHANGED cardVars

ApproveNext ==
    \/ ApproveCall
    \/ ApproveAttemptFails
    \/ ApproveTxSent
    \/ ApproveThrows
    \/ ApproveMined

----------------------------------------------------------------------------
(* Write operations of one hook instance running side by side              *)

\* submitTask and approveTaskCompletion, with the wallet.
WriteSpecNext == WalletNext \/ SubmitTaskNext \/ ApproveNext

WriteSpec == HookInit /\ [][WriteSpecNext]_vars

\* The six write operations up to their first await, where the guards are,
\* with the wallet.
GuardSpecNext ==
    \/ WalletNext
    \/ \E d \in DepositEths : SubmitTaskCall(d)
    \/ \E url \in ProofUrls : SubmitProofCall(url)
    \/ ClaimRewardCall
    \/ ClaimFailedCall
    \/ CheckTaskFailureCall
    \/ ApproveCall

\* The guards do not look at the task: one fresh task is enough.
GuardInit ==
    /\ HookInit
    /\ taskData.deadline = MaxDeadline
    /\ taskData.deposit = MaxDeposit

GuardSpec == GuardInit /\ [][GuardSpecNext]_vars

----------------------------------------------------------------------------
(* refreshTasks, getUserTasks, getAllTasks                                 *)

\* contract.getUserTasks(targetAddress): the ids of the tasks of that
\* account (the chain compares addresses as numbers, so letter case is lost).
UserTaskIds(addr) ==
    IF ToLowerCase(taskData.user) = ToLowerCase(addr) THEN {1} ELSE {}

\* A run of refreshTasks that has passed its guard for the given address:
\* getUserTasks() returns [] at once without an address.
NewRun(addr) ==
    [NoRefresh EXCEPT !.pc = "run", !.address = addr, !.userDone = Falsy(addr)]

\* getUserTasks of a run resolves: each task of the account that
\* getTaskSafely returned is formatted as it is fetched; a failed fetch is
\* skipped.
UserTasksFetchedIn(run, fetchOk) ==
    [run EXCEPT !.userDone = TRUE,
                !.userTasksData = IF fetchOk /\ 1 \in UserTaskIds(run.address)
                                  THEN <<FormatTaskData(taskData, now)>>
                                  ELSE <<>>]

\* getAllTasks of a run resolves in the same way over all task ids.
AllTasksFetchedIn(run, fetchOk) ==
    [run EXCEPT !.allDone = TRUE,
                !.allTasksData = IF fetchOk
                                 THEN <<FormatTaskData(taskData, now)>>
                                 ELSE <<>>]

\* refreshTasks up to its await, called while no other run is in flight:
\* nothing when disconnected or on the wrong network; otherwise
\* getUserTasks() and getAllTasks() are started (their own guards pass on
\* the same values).
RefreshTasksCall ==
    /\ rf.pc \in {"idle", "done"}
    /\ IF ~isConnected \/ ~IsCorrectNetwork(chainId)
       THEN UNCHANGED rf
       ELSE rf' = NewRun(userAddress)
    /\ UNCHANGED <<taskData, userAddress, now, isLoading, sp, cr, cf, userTasks, allTasks>>
    /\ UNCHANGED walletVars
    /\ UNCHANGED cardVars
    /\ UNCHANGED auxVars
    /\ UNCHANGED refreshTimer

\* getUserTasks of the run that started last resolves.
RefreshUserTasksFetched ==
    /\ rf.pc = "run"
    /\ ~rf.userDone
    /\ \E fetchOk \in BOOLEAN : rf' = UserTasksFetchedIn(rf, fetchOk)
    /\ UNCHANGED <<taskData, userAddress, now, isLoading, sp, cr, cf, userTasks, allTasks>>
    /\ UNCHANGED walletVars
    /\ UNCHANGED cardVars
    /\ UNCHANGED auxVars
    /\ UNCHANGED refreshTimer

\* getAllTasks of the run that started last resolves.
RefreshAllTasksFetched ==
    /\ rf.pc = "run"
    /\ ~rf.allDone
    /\ \E fetchOk \in BOOLEAN : rf' = AllTasksFetchedIn(rf, fetchOk)
    /\ UNCHANGED <<taskData, userAddress, now, isLoading, sp, cr, cf, userTasks, allTasks>>
    /\ UNCHANGED walletVars
    /\ UNCHANGED cardVars
    /\ UNCHANGED auxVars
    /\ UNCHANGED refreshTimer

\* Promise.all resolves: setUserTasks, setAllTasks, setIsRefreshing(false).
\* The finished run keeps what it has set.
RefreshTasksCommit ==
    /\ rf.pc = "run"
    /\ rf.userDone
    /\ rf.allDone
    /\ userTasks' = rf.userTasksData
    /\ allTasks' = rf.allTasksData
    /\ rf' = [rf EXCEPT !.pc = "done"]
    /\ UNCHANGED <<taskData, userAddress, now, isLoading, sp, cr, cf>>
    /\ UNCHANGED walletVars
    /\ UNCHANGED cardVars
    /\ UNCHANGED auxVars
    /\ UNCHANGED refreshTimer

RefreshNext ==
    \/ RefreshTasksCall
    \/ RefreshUserTasksFetched
    \/ RefreshAllTasksFetched
    \/ RefreshTasksCommit

\* refreshTasks is called while a run is in flight (the 45 s interval, the
\* refresh button or the initial load during a slow run): the run in
\* flight goes on as the earlier one.
RefreshTasksCallOverlapping ==
    /\ rf.pc = "run"
    /\ rfPrev.pc = "idle"
    /\ IF ~isConnected \/ ~IsCorrectNetwork(chainId)
       THEN UNCHANGED <<rf, rfPrev>>
       ELSE rfPrev' = rf /\ rf' = NewRun(userAddress)
    /\ UNCHANGED <<taskData, userAddress, now, isLoading, sp, cr, cf, userTasks, allTasks>>
    /\ UNCHANGED walletVars
    /\ UNCHANGED cardVars
    /\ UNCHANGED <<st, ck, ap, ga>>
    /\ UNCHANGED refreshTimer

\* The refresh timer of a write operation fires: the refreshTasks it holds
\* passes its guard on the values of the render it comes from.
DelayedRefreshFires ==
    /\ refreshTimer.pending
    /\ rf.pc = "run" => rfPrev.pc = "idle"
    /\ rfPrev' = IF rf.pc = "run" THEN rf ELSE rfPrev
    /\ rf' = NewRun(refreshTimer.address)
    /\ refreshTimer' = NoTimer
    /\ UNCHANGED <<taskData, userAddress, now, isLoading, sp, cr, cf, userTasks, allTasks>>
    /\ UNCHANGED walletVars
    /\ UNCHANGED cardVars
    /\ UNCHANGED <<st, ck, ap, ga>>

\* getUserTasks of the earlier run resolves.
EarlierRefreshUserTasksFetched ==
    /\ rfPrev.pc = "run"
    /\ ~rfPrev.userDone
    /\ \E fetchOk \in BOOLEAN : rfPrev' = UserTasksFetchedIn(rfPrev, fetchOk)
    /\ UNCHANGED <<taskData, userAddress, now, isLoading, sp, cr, cf, userTasks, allTasks, rf>>
    /\ UNCHANGED walletVars
    /\ UNCHANGED cardVars
    /\ UNCHANGED <<st, ck, ap, ga>>
    /\ UNCHANGED refreshTimer

\* getAllTasks of the earlier run resolves.
EarlierRefreshAllTasksFetched ==
    /\ rfPrev.pc = "run"
    /\ ~rfPrev.allDone
    /\ \E fetchOk \in BOOLEAN : rfPrev' = AllTasksFetchedIn(rfPrev, fetchOk)
    /\ UNCHANGED <<taskData, userAddress, now, isLoading, sp, cr, cf, userTasks, allTasks, rf>>
    /\ UNCHANGED walletVars
    /\ UNCHANGED cardVars
    /\ UNCHANGED <<st, ck, ap, ga>>
    /\ UNCHANGED refreshTimer

\* Promise.all of the earlier run resolves: setUserTasks, setAllTasks.
EarlierRefreshCommit ==
    /\ rfPrev.pc = "run"
    /\ rfPrev.userDone
    /\ rfPrev.allDone
    /\ userTasks' = rfPrev.userTasksData
    /\ allTasks' = rfPrev.allTasksData
    /\ rfPrev' = NoRefresh
    /\ UNCHANGED <<taskData, userAddress, now, isLoading, sp, cr, cf, rf>>
    /\ UNCHANGED walletVars
    /\ UNCHANGED cardVars
    /\ UNCHANGED <<st, ck, ap, ga>>
    /\ UNCHANGED refreshTimer

EarlierRefreshNext ==
    \/ RefreshTasksCallOverlapping
    \/ DelayedRefreshFires
    \/ EarlierRefreshUserTasksFetched
    \/ EarlierRefreshAllTasksFetched
    \/ EarlierRefreshCommit

\* Refreshes that overlap, with the wallet and checkTaskFailure, whose
\* success starts the refresh timer.
OverlapSpecNext == WalletNext \/ RefreshNext \/ EarlierRefreshNext \/ CheckTaskFailureNext

OverlapSpec == HookInit /\ [][OverlapSpecNext]_vars

\* Refreshes one after another, with the wallet, the clock and the contract.
RefreshSpecNext == Tick \/ WalletNext \/ ContractNext \/ RefreshNext

RefreshSpec == HookInit /\ [][RefreshSpecNext]_vars

----------------------------------------------------------------------------
(* getAllTasks(), getAllTaskIds() and getTaskSafely(taskId), id by id      *)

\* contract.getTask(id): the task followed here has id 1, the tasks with
\* higher ids are somebody else's.
ChainTask(id) ==
    IF id = 1 THEN taskData
    ELSE [user |-> <<"a", "c">>, deposit |-> MaxDeposit, deadline |-> MaxDeadline,
          status |-> InProgress, proofOfCompletion |-> EmptyString]

\* formatTaskData(taskData) with the id field of its result.
FormattedWithId(id, clock) == [id |-> id] @@ FormatTaskData(ChainTask(id), clock)

\* The loop `for (const taskId of taskIds)` moves on from the current id
\* with the given list of tasks; after the last id the list is returned.
GetAllTasksAdvance(run, tasks) ==
    IF run.taskId < run.currentTaskId
    THEN [run EXCEPT !.taskId = run.taskId + 1, !.tasks = tasks]
    ELSE [run EXCEPT !.pc = "done", !.tasks = tasks, !.result = tasks]

\* The call up to its first await: [] when disconnected or on the wrong
\* network, otherwise getAllTaskIds() is requested.
GetAllTasksCall ==
    /\ ga.pc \in {"idle", "done"}
    /\ IF ~isConnected \/ ~IsCorrectNetwork(chainId)
       THEN ga' = [NoGetAllTasks EXCEPT !.pc = "done", !.guardFailed = TRUE,
                                        !.result = <<>>]
       ELSE ga' = [NoGetAllTasks EXCEPT !.pc = "ids"]
    /\ UNCHANGED <<taskData, userAddress, now, isLoading, sp, cr, cf, userTasks, allTasks, rf>>
    /\ UNCHANGED <<st, ck, ap, rfPrev, refreshTimer>>
    /\ UNCHANGED walletVars
    /\ UNCHANGED cardVars

\* getAllTaskIds resolves: contract.getCurrentTaskId() returned n, the ids
\* are 1..n; with no id the loop is empty and [] is returned.
GetAllTaskIdsResolved(n) ==
    /\ ga.pc = "ids"
    /\ ga' = IF n = 0
             THEN [ga EXCEPT !.pc = "done", !.result = <<>>]
             ELSE [ga EXCEPT !.pc = "fetch", !.currentTaskId = n, !.taskId = 1]
    /\ UNCHANGED <<taskData, userAddress, now, isLoading, sp, cr, cf, userTasks, allTasks, rf>>
    /\ UNCHANGED <<st, ck, ap, rfPrev, refreshTimer>>
    /\ UNCHANGED walletVars
    /\ UNCHANGED cardVars

\* getCurrentTaskId rejects or times out: getAllTaskIds returns [], so
\* does getAllTasks.
GetAllTaskIdsFails ==
    /\ ga.pc = "ids"
    /\ ga' = [ga EXCEPT !.pc = "done", !.idsFailed = TRUE, !.result = <<>>]
    /\ UNCHANGED <<taskData, userAddress, now, isLoading, sp, cr, cf, userTasks, allTasks, rf>>
    /\ UNCHANGED <<st, ck, ap, rfPrev, refreshTimer>>
    /\ UNCHANGED walletVars
    /\ UNCHANGED cardVars

\* getTaskSafely(taskId) returns the record: it is formatted and pushed.
GetAllTasksTaskFetched ==
    /\ ga.pc = "fetch"
    /\ ga' = GetAllTasksAdvance(ga, Append(ga.tasks, FormattedWithId(ga.taskId, now)))
    /\ UNCHANGED <<taskData, userAddress, now, isLoading, sp, cr, cf, userTasks, allTasks, rf>>
    /\ UNCHANGED <<st, ck, ap, rfPrev, refreshTimer>>
    /\ UNCHANGED walletVars
    /\ UNCHANGED cardVars

GetAllTasksTaskFails_Aborts ==
    /\ ga.pc = "fetch"
    /\ ga' = [ga EXCEPT !.pc = "done", !.failed = ga.failed \cup {ga.taskId},
                        !.result = ga.tasks]
    /\ UNCHANGED <<taskData, userAddress, now, isLoading, sp, cr, cf, userTasks, allTasks, rf>>
    /\ UNCHANGED <<st, ck, ap, rfPrev, refreshTimer>>
    /\ UNCHANGED walletVars
    /\ UNCHANGED cardVars

\* getTaskSafely(taskId) fails or times out and returns null: the id is
\* skipped.
GetAllTasksTaskFails ==
    /\ ga.pc = "fetch"
    /\ ga' = GetAllTasksAdvance([ga EXCEPT !.failed = ga.failed \cup {ga.taskId}], ga.tasks)
    /\ UNCHANGED <<taskData, userAddress, now, isLoading, sp, cr, cf, userTasks, allTasks, rf>>
    /\ UNCHANGED <<st, ck, ap, rfPrev, refreshTimer>>
    /\ UNCHANGED walletVars
    /\ UNCHANGED cardVars

GetAllTasksNext ==
    \/ GetAllTasksCall
    \/ \E n \in 0..MaxTaskId : GetAllTaskIdsResolved(n)
    \/ GetAllTaskIdsFails
    \/ GetAllTasksTaskFetched
    \/ GetAllTasksTaskFails

\* getAllTasks with the wallet; the clock and the contract stand still, so
\* that what a fetch returned can be told from the state.
AllTasksSpecNext == WalletNext \/ GetAllTasksNext

AllTasksSpec == HookInit /\ [][AllTasksSpecNext]_vars

----------------------------------------------------------------------------
(* Vocabulary of the properties                                            *)

Formatted == task # Null

Rendered == task # Null /\ view # Null

\* The card's flags and the formatted task were computed at one clock value.
SameInstant == Rendered /\ renderedAt = formattedAt

ViewerPresent == ~Falsy(userAddress)

\* Equality of two addresses up to letter case.
SameIgnoringCase(a, b) ==
    /\ Len(a) = Len(b)
    /\ \A i \in 1..Len(a) : LowerChar(a[i]) = LowerChar(b[i])

ViewerIsCreator == ViewerPresent /\ SameIgnoringCase(userAddress, taskData.user)

ProofStored == taskData.proofOfCompletion # EmptyString

AlreadyClaimed == taskData.status = Complete /\ taskData.deposit = 0

\* The four-way classification of a record at time t, as a decision table.
Classified(t) ==
    IF taskData.status = Complete THEN "completed"
    ELSE IF taskData.status = Failed THEN "failed"
    ELSE IF taskData.deadline < t THEN "failed"
    ELSE IF ProofStored THEN "in-review"
    ELSE "active"

----------------------------------------------------------------------------
(* C1: a record that is InProgress with deadline < now is classified       *)
(* 'failed' by formatTaskData whether or not a proof is stored; it is      *)
(* never 'in-review' or 'active'.                                          *)
C1_DeadlinePriority ==
    (Formatted /\ taskData.status = InProgress /\ taskData.deadline < formattedAt)
        => /\ task.status = "failed"
           /\ task.status \notin {"in-review", "active"}

C1_Witness ==
    /\ Formatted
    /\ taskData.status = InProgress
    /\ taskData.deadline < formattedAt
    /\ ProofStored
    /\ task.status = "failed"

(* C2, as claimed: InProgress, no proof and deadline >= now (equality      *)
(* included) give status 'active', and canSubmitProofForTask at the same   *)
(* now is true exactly when the viewer is the creator up to letter case.   *)
C2_Original ==
    (SameInstant /\ taskData.status = InProgress /\ ~ProofStored
        /\ taskData.deadline >= formattedAt)
        => /\ task.status = "active"
           /\ view.canSubmitProof <=> ViewerIsCreator

(* C2, what the code does: the status is 'active' up to and including the  *)
(* deadline, the flag set by formatTaskData is true there, but             *)
(* canSubmitProofForTask is offered to the creator only while              *)
(* deadline > now.                                                         *)
C2_StrictDeadline ==
    (SameInstant /\ taskData.status = InProgress /\ ~ProofStored
        /\ taskData.deadline >= formattedAt)
        => /\ task.status = "active"
           /\ task.canSubmitProof
           /\ view.canSubmitProof
                <=> (ViewerIsCreator /\ taskData.deadline > renderedAt)

C2_AtDeadline ==
    /\ SameInstant
    /\ taskData.status = InProgress
    /\ ~ProofStored
    /\ taskData.deadline = formattedAt
    /\ ViewerIsCreator
    /\ task.status = "active"
    /\ ~view.canSubmitProof

(* C3: the status is 'in-review' exactly when the record is InProgress,    *)
(* a proof is stored and deadline >= now; never for Complete or Failed;    *)
(* and in 'in-review' proof submission is offered to no viewer.            *)
C3_InReview ==
    /\ Formatted =>
         /\ task.status = "in-review"
              <=> (taskData.status = InProgress /\ ProofStored
                     /\ taskData.deadline >= formattedAt)
         /\ taskData.status \in {Complete, Failed} => task.status # "in-review"
         /\ task.status = "in-review" => ~task.canSubmitProof
    /\ (Rendered /\ task.status = "in-review") => ~view.canSubmitProof

C3_Witness ==
    /\ Rendered
    /\ task.status = "in-review"
    /\ taskData.deadline = formattedAt
    /\ ViewerIsCreator
    /\ ~view.canSubmitProof

(* C4: a Complete record is 'completed' and never offered for third-party  *)
(* claim, whatever the time, deadline, proof, deposit and viewer.          *)
C4_Complete ==
    /\ (Formatted /\ taskData.status = Complete) => task.status = "completed"
    /\ (Rendered /\ taskData.status = Complete) => ~view.canClaimFailed

C4_Witness ==
    /\ Rendered
    /\ taskData.status = Complete
    /\ taskData.deadline < formattedAt
    /\ ViewerPresent
    /\ ~ViewerIsCreator
    /\ task.status = "completed"
    /\ ~view.canClaimFailed

(* C5: a Failed record is 'failed', and neither proof submission nor       *)
(* own-claim is offered to any viewer, whatever the time, deadline, proof. *)
C5_Failed ==
    /\ (Formatted /\ taskData.status = Failed)
         => (task.status = "failed" /\ ~task.canSubmitProof)
    /\ (Rendered /\ taskData.status = Failed)
         => (~view.canSubmitProof /\ ~view.canClaimOwn)

C5_Witness ==
    /\ Rendered
    /\ taskData.status = Failed
    /\ ~ProofStored
    /\ taskData.deadline > renderedAt
    /\ taskData.deposit > 0
    /\ ViewerIsCreator
    /\ task.status = "failed"
    /\ ~view.canClaimOwn

(* C6: own-claim is offered exactly when the status is 'completed', a      *)
(* viewer is present and is the creator up to letter case, and the task    *)
(* is not already claimed (Complete with deposit 0).                       *)
C6_ClaimOwn ==
    Rendered =>
      /\ view.canClaimOwn
           <=> (task.status = "completed" /\ ViewerIsCreator /\ ~AlreadyClaimed)
      /\ (taskData.status = Complete /\ taskData.deposit = 0) => ~view.canClaimOwn
      /\ (taskData.status = Complete /\ taskData.deposit # 0 /\ ViewerIsCreator)
           => view.canClaimOwn

C6_Witness ==
    /\ Rendered
    /\ taskData.status = Complete
    /\ taskData.deposit = 0
    /\ ViewerIsCreator
    /\ userAddress # taskData.user
    /\ ~view.canClaimOwn

(* C7: third-party claim is offered exactly when the status is 'failed'    *)
(* (Failed, or InProgress with deadline < now), a viewer is present and    *)
(* differs from the creator up to letter case.                             *)
C7_ClaimAsOther ==
    Rendered =>
      /\ view.canClaimFailed
           <=> (task.status = "failed" /\ ViewerPresent /\ ~ViewerIsCreator)
      /\ task.status = "failed"
           <=> \/ taskData.status = Failed
               \/ taskData.status = InProgress /\ taskData.deadline < formattedAt
      /\ ViewerIsCreator => ~view.canClaimFailed

C7_Witness ==
    /\ Rendered
    /\ taskData.status = InProgress
    /\ taskData.deadline < formattedAt
    /\ ViewerIsCreator
    /\ userAddress # taskData.user
    /\ task.status = "failed"
    /\ ~view.canClaimFailed

(* C8: whenever proof submission is offered, by canSubmitProofForTask or   *)
(* by the canSubmitProof flag of formatTaskData, the status is 'active'.   *)
C8_SubmitOnlyActive ==
    /\ (Rendered /\ view.canSubmitProof) => task.status = "active"
    /\ (Formatted /\ task.canSubmitProof) => task.status = "active"

C8_Witness ==
    /\ Rendered
    /\ view.canSubmitProof
    /\ task.canSubmitProof
    /\ task.status = "active"

(* C9: with no viewer identity (undefined or the empty address) all three  *)
(* flags are false, and the status is the one any viewer would see.        *)
C9_NoViewer ==
    (Rendered /\ ~ViewerPresent) =>
      /\ ~view.canSubmitProof
      /\ ~view.canClaimOwn
      /\ ~view.canClaimFailed
      /\ task.status = Classified(formattedAt)

C9_Witness ==
    /\ Rendered
    /\ userAddress = EmptyString
    /\ task.status = "failed"
    /\ ~view.canClaimFailed

(* C10: replacing the viewer address, or the creator address of the task,  *)
(* by the same address in another letter case changes none of the three    *)
(* flags.                                                                  *)
C10_CaseInsensitive ==
    (Rendered /\ ViewerPresent) =>
      /\ \A a \in Addresses :
           SameIgnoringCase(a, userAddress)
             => CardFlags(task, a, renderedAt) = view
      /\ \A c \in Addresses :
           SameIgnoringCase(c, task.creator)
             => CardFlags([task EXCEPT !.creator = c], userAddress, renderedAt) = view

C10_Witness ==
    /\ Rendered
    /\ ViewerIsCreator
    /\ userAddress # taskData.user
    /\ view.canSubmitProof

----------------------------------------------------------------------------
(* Vocabulary of the properties of submitProof                             *)

\* A proofUrl with a character that is not white space.
NonBlank(url) == \E i \in DOMAIN url : url[i] # " "

\* What the claim requires of the record submitProof fetched, of the
\* connected address and of the supplied URL before a transaction is sent.
SubmitAllowed ==
    /\ sp.fetched # Null
    /\ SameIgnoringCase(sp.address, sp.fetched.creator)
    /\ sp.fetched.proof = EmptyString
    /\ sp.fetched.status = "active"
    /\ sp.fetched.deadline >= sp.checkedAt
    /\ NonBlank(sp.proofUrl)

(* C12, as claimed: isCorrectNetwork is true exactly when the wallet is on *)
(* EXPECTED_CHAIN_ID (Amoy), so that a wallet connected on Amoy sees no    *)
(* Wrong Network prompt and gets its contract instance initialised.        *)
C12_Original ==
    isConnected =>
      /\ IsCorrectNetwork(chainId) <=> chainId = EXPECTED_CHAIN_ID
      /\ chainId = EXPECTED_CHAIN_ID => ~WrongNetworkShown
      /\ (chainId = EXPECTED_CHAIN_ID /\ walletClient) => (contract \/ initTimer)

(* C13: submitProof sends a transaction only if, for the record it         *)
(* fetched, the connected address is the creator up to letter case, no     *)
(* proof is stored, the status is 'active', the deadline is not earlier    *)
(* than the current time and the URL is not blank; otherwise it sends      *)
(* nothing and returns false.                                              *)
C13_SubmitGuarded ==
    /\ (sp.sent \/ sp.result = "true") => SubmitAllowed
    /\ (sp.pc = "done" /\ ~SubmitAllowed) => (~sp.sent /\ sp.result = "false")

C13_Witness ==
    /\ sp.pc = "wait"
    /\ sp.sent
    /\ sp.address # sp.fetched.creator
    /\ sp.fetched.deadline = sp.checkedAt

(* C14: a submitProof call that starts when a proof is already recorded    *)
(* in the contract sends no transaction and returns false.                 *)
C14_NoResubmission ==
    sp.proofWasStored =>
      /\ ~sp.sent
      /\ sp.result # "true"
      /\ sp.pc = "done" => sp.result = "false"

C14_Witness ==
    /\ sp.proofWasStored
    /\ sp.pc = "done"
    /\ sp.fetched # Null
    /\ sp.fetched.status = "in-review"
    /\ SameIgnoringCase(sp.address, sp.fetched.creator)
    /\ NonBlank(sp.proofUrl)
    /\ sp.result = "false"

(* C20, as claimed: for the record, address and time of submitProof's      *)
(* checks, canSubmitProofForTask is true exactly when the checks pass.     *)
C20_Original ==
    sp.fetched # Null =>
      (CanSubmitProofForTask(sp.fetched, sp.address, sp.checkedAt)
         <=> SubmitProofChecks(sp.fetched, sp.address, sp.checkedAt))

----------------------------------------------------------------------------
(* C15, as claimed: claimReward sends a claim transaction only if, for the *)
(* record it fetched, the status is 'completed', the connected address is  *)
(* the creator and the task is not already claimed (Complete with deposit  *)
(* 0); otherwise it returns false without sending.                         *)
C15_Original ==
    cr.sent =>
      /\ cr.fetched # Null
      /\ cr.fetched.status = "completed"
      /\ SameIgnoringCase(cr.address, cr.fetched.creator)
      /\ ~(cr.fetched.status = "completed" /\ cr.fetched.deposit = 0)

(* C16, as claimed: claimFailedTask sends claimFailedTaskDeposit only if   *)
(* the task is 'failed' and the connected address is not its creator.      *)
C16_Original ==
    (cf.sent /\ cf.pc = "wait" /\ cf.checkedAt = now) =>
      /\ Classified(now) = "failed"
      /\ ~SameIgnoringCase(cf.address, taskData.user)

----------------------------------------------------------------------------
(* C17, as claimed: at every instant every task in userTasks / allTasks    *)
(* whose record is InProgress with deadline < now has status 'failed' and  *)
(* is offered to non-creators, also between two refreshes.                 *)
C17_Original ==
    (taskData.status = InProgress /\ taskData.deadline < now) =>
      \A list \in {userTasks, allTasks} :
        \A i \in DOMAIN list :
          /\ list[i].status = "failed"
          /\ \A a \in HookAddresses :
               ~SameIgnoringCase(a, list[i].creator) => CanClaimFailedTask(list[i], a)

----------------------------------------------------------------------------
(* C18: for a fixed record, formatting it again at a later time changes    *)
(* the derived status only from 'active' or 'in-review' to 'failed': a     *)
(* 'failed' status stays 'failed', 'active' and 'in-review' never turn     *)
(* into one another, and a Complete or Failed record keeps its status.     *)
C18_Monotone ==
    [][(task # Null /\ task' # Null /\ taskData' = taskData) =>
         /\ task.status = "failed" => task'.status = "failed"
         /\ task'.status # task.status =>
              /\ task.status \in {"active", "in-review"}
              /\ task'.status = "failed"
         /\ taskData.status \in {Complete, Failed} => task'.status = task.status]_vars

\* An InProgress record formatted at a later time, after its deadline.
C18_Witness ==
    /\ Formatted
    /\ taskData.status = InProgress
    /\ formattedAt > taskData.deadline
    /\ formattedAt > 0
    /\ task.status = "failed"

----------------------------------------------------------------------------
(* C19: on every render of the task card at most one of canSubmitProof,    *)
(* canClaimOwn (canClaimTask) and canClaimFailed is true.                  *)
C19_MutualExclusion ==
    Rendered =>
      /\ ~(view.canSubmitProof /\ view.canClaimOwn)
      /\ ~(view.canSubmitProof /\ view.canClaimFailed)
      /\ ~(view.canClaimOwn /\ view.canClaimFailed)

\* A card rendered for the creator of an active task: exactly one action.
C19_Witness ==
    /\ Rendered
    /\ ViewerIsCreator
    /\ view.canSubmitProof
    /\ ~view.canClaimOwn
    /\ ~view.canClaimFailed

----------------------------------------------------------------------------
(* C26: within one claimReward invocation the functions are tried in the   *)
(* order claimReward, claimStake, withdrawDeposit, a later one only after   *)
(* the earlier one failed; at most one transaction is sent; the call        *)
(* returns true only if a transaction was sent and confirmed, and false if  *)
(* all three attempts failed.                                               *)
C26_ClaimOrder ==
    LET order == <<"claimReward", "claimStake", "withdrawDeposit">>
    IN  /\ Len(cr.tried) <= Len(order)
        /\ cr.tried = SubSeq(order, 1, Len(cr.tried))
        /\ Len(cr.tried) <= cr.failures + 1
        /\ Len(cr.txs) <= 1
        /\ cr.result = "true" => Len(cr.txs) = 1 /\ cr.confirmed
        /\ (cr.pc = "done" /\ cr.failures = Len(order)) => cr.result = "false"

\* claimReward and claimStake failed, withdrawDeposit was sent and confirmed.
C26_Witness ==
    /\ cr.pc = "done"
    /\ cr.result = "true"
    /\ cr.failures = 2
    /\ cr.txs = <<"withdrawDeposit">>

----------------------------------------------------------------------------
(* C27, as claimed: once the user has rejected the wallet prompt of a       *)
(* claim transaction, claimReward tries no further function, reports        *)
(* 'Transaction cancelled' and returns false.                               *)
C27_Original ==
    cr.rejectedAt # 0 =>
      /\ cr.attempt = cr.rejectedAt
      /\ cr.pc = "done"
      /\ cr.toast = "Transaction cancelled"
      /\ cr.result = "false"

----------------------------------------------------------------------------
\* The invocation has passed its guards and has not returned.
InFlight(call) == call.pc \notin {"idle", "done"}

(* C21, as claimed: isLoading is true exactly while at least one of         *)
(* submitTask, submitProof, claimReward, claimFailedTask and                *)
(* approveTaskCompletion is past its guards and has not returned, also      *)
(* when two of them overlap.                                                *)
C21_Original ==
    isLoading <=> \E call \in {st, sp, cr, cf, ap} : InFlight(call)

----------------------------------------------------------------------------
\* The invocations of the six write operations.
WriteCalls == <<st, sp, cr, cf, ck, ap>>

(* C25: a call of submitTask, submitProof, claimReward, claimFailedTask,    *)
(* checkTaskFailure or approveTaskCompletion made while the wallet is       *)
(* disconnected, the network is wrong or the signer contract is null        *)
(* returns false, sends no transaction, starts no refresh timer and leaves  *)
(* isLoading, userTasks and allTasks unchanged.                             *)
C25_GuardFailureFrame ==
    [][\A i \in DOMAIN WriteCalls :
         LET before == WriteCalls[i]
             after == WriteCalls'[i]
         IN  (/\ ~isConnected \/ ~IsCorrectNetwork(chainId) \/ ~contract
              /\ before.pc \in {"idle", "done"}
              /\ after # before)
             => /\ after.pc = "done"
                /\ after.result = "false"
                /\ ~after.sent
                /\ after.txs = <<>>
                /\ refreshTimer' = refreshTimer
                /\ isLoading' = isLoading
                /\ userTasks' = userTasks
                /\ allTasks' = allTasks]_vars

\* submitTask has been refused for a null contract instance while
\* approveTaskCompletion, called in an earlier connection, is in flight.
C25_Witness ==
    /\ st.pc = "done"
    /\ st.toast = "Contract not initialized. Please try again."
    /\ st.result = "false"
    /\ ~contract
    /\ InFlight(ap)
    /\ isLoading

----------------------------------------------------------------------------
(* C24: the signer-bound contract instance is non-null, or its 500 ms       *)
(* initialisation timer pending, only while the wallet is connected, a      *)
(* wallet client exists and the network is correct; a timer started in an   *)
(* earlier connection state never installs a contract afterwards.           *)
C24_ContractOnlyWhileUsable ==
    (contract \/ initTimer) =>
      (isConnected /\ walletClient /\ IsCorrectNetwork(chainId))

\* The instance was there (an operation passed its guard and is in flight)
\* and has been set to null with the wallet gone.
C24_Witness ==
    /\ InFlight(st)
    /\ ~isConnected
    /\ ~contract
    /\ ~initTimer

----------------------------------------------------------------------------
(* C22, as claimed: while the wallet is disconnected or on the wrong        *)
(* network (the effects having run) userTasks and allTasks are empty, also  *)
(* when a refresh that started before the disconnect completes after it.    *)
C22_Original ==
    (~isConnected \/ ~IsCorrectNetwork(chainId)) =>
      (userTasks = <<>> /\ allTasks = <<>>)

----------------------------------------------------------------------------
(* C23, as claimed: when refreshTasks runs overlap, once all of them have   *)
(* completed userTasks and allTasks hold the result of the run that         *)
(* started last, not that of an earlier-started run that finished later.    *)
C23_Original ==
    [][(rfPrev.pc = "run" /\ rfPrev'.pc = "idle" /\ rf.pc = "done")
         => (userTasks' = rf.userTasksData /\ allTasks' = rf.allTasksData)]_vars

----------------------------------------------------------------------------
(* C28: getAllTasks returns, in ascending id order and without duplicates,  *)
(* exactly the tasks of the ids in 1..N whose fetch succeeded (a failed     *)
(* fetch is skipped, the rest goes on), and the empty list when the wallet  *)
(* is disconnected, the network is wrong or the id enumeration fails.       *)
C28_AllTasksExact ==
    ga.pc = "done" =>
      LET result == ga.result
          fetched == {id \in 1..ga.currentTaskId : id \notin ga.failed}
      IN  /\ (ga.guardFailed \/ ga.idsFailed) => result = <<>>
          /\ {result[k].id : k \in DOMAIN result} = fetched
          /\ \A k \in DOMAIN result :
               /\ k > 1 => result[k - 1].id < result[k].id
               /\ result[k] = FormattedWithId(result[k].id, now)

\* Three ids, the fetch of the second failed, the other two are returned.
C28_Witness ==
    /\ ga.pc = "done"
    /\ ga.currentTaskId = 3
    /\ ga.failed = {2}
    /\ Len(ga.result) = 2

====
